---- MODULE Spec2Model ----
(***************************************************************************)
(* The tree-data synchronisation and caching layer of the DNS manager:     *)
(* CloudflareTreeDataProvider (three cache tables, three loading-guard     *)
(* sets, getChildren and the refresh operations), together with the parts  *)
(* of StorageService, CloudflareApiService and MemberService it awaits.    *)
(*                                                                         *)
(* Strings that the code takes apart (ids, cache keys, error messages) are *)
(* sequences of one-character or one-token strings.  A suspended async     *)
(* call is an element of inflight; each action runs one handler from a     *)
(* resumption to its next await or to its return, as the single-threaded   *)
(* event loop does.                                                        *)
(***************************************************************************)
EXTENDS Integers, Sequences, FiniteSets, TLC

\* ------------------------------------------------------------------ bounds

\* Largest number of getChildren calls suspended at an await at one time.
MaxCalls == 2
\* Items on one page of a remote collection (the code asks for 50 or 100 per
\* page; the collections of the model are scaled down with it).
PageSize == 1
\* Largest number of records in a cached list handed to the record filter/sort.
MaxRecords == 3
\* Largest number of e-mail addresses given to one invite command.
MaxEmails == 2

\* ------------------------------------------------------- ids and cache keys

\* Account ids; one is a string prefix of the other.
AccountIds == {<<"a">>, <<"a", "b">>}
\* Zone ids served by the remote API.
ZoneIds == {<<"z">>}
\* The list of accounts held by the Account Store when it is not empty.
StoredAccounts == <<<<"a">>, <<"a", "b">>>>

NoId == <<>>

\* String.prototype.startsWith
startsWith(s, prefix) ==
    /\ Len(prefix) <= Len(s)
    /\ SubSeq(s, 1, Len(prefix)) = prefix

\* `${accountId}:${zone.id}`
cacheKey(accountId, zoneId) == accountId \o <<":">> \o zoneId

\* Map.prototype.has / set / delete / clear on a cache table
MapHas(m, k) == k \in DOMAIN m
MapSet(m, k, v) == [x \in (DOMAIN m) \cup {k} |-> IF x = k THEN v ELSE m[x]]
MapDelete(m, k) == [x \in (DOMAIN m) \ {k} |-> m[x]]
MapClear == [x \in {} |-> <<>>]

\* Array.prototype.map over a sequence
RECURSIVE SeqMap(_, _)
SeqMap(Op(_), s) ==
    IF s = <<>> THEN <<>> ELSE <<Op(Head(s))>> \o SeqMap(Op, Tail(s))

\* ------------------------------------------------------------------ models

\* Zone.recordCount left undefined
NoCount == -1
\* total_count reported by the count request of a zone
TotalCount == 2

\* the name the server reports for a zone
nameOfZone(id) == id \o <<".", "net">>

Zone(id) == [id |-> id, name |-> nameOfZone(id), recordCount |-> NoCount]
DnsRecord(type, name) == [type |-> type, name |-> name]

\* The accounts whose store reads and remote requests never fail and whose
\* collections never change; failures and changing answers are explored on
\* the other accounts.
SteadyAccounts == {<<"a", "b">>}

\* The account whose collections take several pages, and its zones.
PagedAccountIds == {<<"p">>}
PagedZoneIds == {<<"z", "1">>, <<"z", "2">>}

\* The records and members a paged collection is cut from.
PagedRecords ==
    <<DnsRecord("TXT", "c"), DnsRecord("A", "b"), DnsRecord("MX", "a"),
      DnsRecord("A", "a"), DnsRecord("CNAME", "c"), DnsRecord("SRV", "b"),
      DnsRecord("AAAA", "a"), DnsRecord("TXT", "a"), DnsRecord("MX", "c")>>
PagedMembers == <<"m1", "m2", "m3", "m4", "m5", "m6">>

\* the first n items of a sequence (all of it when it is shorter)
FirstItems(s, n) == SubSeq(s, 1, IF n < Len(s) THEN n ELSE Len(s))

\* The remote collections, as the server may hold them when it answers the
\* request for page 1.
ZoneLists(accountId) ==
    IF accountId \in SteadyAccounts THEN {<<Zone(<<"z">>)>>}
    ELSE IF accountId \in PagedAccountIds
    THEN {<<Zone(<<"z", "1">>), Zone(<<"z", "2">>)>>}
    ELSE {<<>>, <<Zone(<<"z">>)>>}
RecordLists(accountId) ==
    IF accountId \in SteadyAccounts THEN {<<DnsRecord("A", "a")>>}
    ELSE IF accountId \in PagedAccountIds
    THEN {<<>>, FirstItems(PagedRecords, 2 * PageSize + 1),
          FirstItems(PagedRecords, 3 * PageSize)}
    ELSE {<<>>, <<DnsRecord("TXT", "b"), DnsRecord("A", "a")>>}
MemberLists(accountId) ==
    IF accountId \in SteadyAccounts THEN {<<"m2">>}
    ELSE IF accountId \in PagedAccountIds
    THEN {<<>>, FirstItems(PagedMembers, 2 * PageSize)}
    ELSE {<<>>, <<"m1">>}

\* errors[] of an answer with success:false
ApiErrorLists == {<<"e1", "e2">>}

\* ------------------------------------------------------------- tree items

LoadingTreeItem == [kind |-> "loading"]
ErrorTreeItem(message) == [kind |-> "error", message |-> message]
EmptyTreeItem(message) == [kind |-> "empty", message |-> message]
AccountTreeItem(accountId) ==
    [kind |-> "account", accountId |-> accountId, zoneId |-> NoId]
ZoneTreeItem(zone, accountId) ==
    [kind |-> "zone", accountId |-> accountId, zoneId |-> zone.id,
     recordCount |-> zone.recordCount]
TeamMembersTreeItem(accountId, memberCount) ==
    [kind |-> "teamMembers", accountId |-> accountId, zoneId |-> NoId,
     memberCount |-> memberCount]
DnsRecordTreeItem(record) == [kind |-> "dnsRecord", record |-> record]

\* scopeZoneIds of the MemberTreeItem constructor: the zone ids in the
\* resource-group scopes of the member's policies, each once, in the order
\* the server sends them.  m1 has policies on six zones, m2 has account-level
\* roles and no policy.
scopeZoneIds(member) ==
    CASE member = "m1" -> << <<"z">>, <<"y">>, <<"z", "1">>, <<"z", "2">>,
                             <<"x">>, <<"w">> >>
      [] member = "m2" -> <<>>
      [] OTHER -> << <<"z", "2">> >>

\* const maxToShow = 5
maxToShow == 5

\* the lookup without its fallback: a zone id that is not in zoneMap is shown
\* as undefined
zoneNameLookedUp(zoneMap, zoneId) ==
    IF MapHas(zoneMap, zoneId) THEN zoneMap[zoneId] ELSE <<"undefined">>

\* const zoneName = zoneMap?.get(zoneId) || zoneId
zoneNameShown(zoneMap, zoneId) ==
    IF MapHas(zoneMap, zoneId) /\ zoneMap[zoneId] # <<>>
    THEN zoneMap[zoneId] ELSE zoneId

\* A member node: scope lists the lines of the Scope section of its tooltip
\* that name a zone, more is the number of the "...and N more" line (0 when
\* there is none).
MemberTreeItem(member, accountId, zoneMap) ==
    LET zonesToShow == FirstItems(scopeZoneIds(member), maxToShow)
        Shown(zoneId) == zoneNameShown(zoneMap, zoneId)
    IN  [kind |-> "member", accountId |-> accountId, member |-> member,
         scope |-> SeqMap(Shown, zonesToShow),
         more |-> Len(scopeZoneIds(member)) - Len(zonesToShow)]

\* The element the tree widget passes back to getChildren for a node.
Element(kind, accountId, zoneId) ==
    [kind |-> kind, accountId |-> accountId, zoneId |-> zoneId]
RootElement == Element("root", NoId, NoId)

\* The expandable nodes of a returned list, as elements the widget now holds.
Expandable(items) ==
    {Element(items[i].kind, items[i].accountId, items[i].zoneId) :
        i \in {j \in 1..Len(items) :
                 items[j].kind \in {"account", "zone", "teamMembers"}}}

\* ------------------------------------------------------------------- state

VARIABLES
    zonesCache,       \* Map<accountId, Zone[]>
    recordsCache,     \* Map<accountId:zoneId, DnsRecord[]>
    membersCache,     \* Map<accountId, Member[]>
    loadingAccounts,  \* Set<accountId>
    loadingZones,     \* Set<accountId:zoneId>
    loadingMembers,   \* Set<accountId>
    instance,         \* StorageService.instance is set
    inflight,         \* the getChildren calls suspended at an await
    issued,           \* the expandable nodes handed to the tree widget so far
    last              \* what the last step returned and emitted

vars == <<zonesCache, recordsCache, membersCache, loadingAccounts,
          loadingZones, loadingMembers, instance, inflight, issued, last>>

caches == <<zonesCache, recordsCache, membersCache>>
guards == <<loadingAccounts, loadingZones, loadingMembers>>

\* A suspended call: the element it was made on, the await it is at, the
\* locals of the handler and of the page loop it is in, and, from the answer
\* to page 1 on, the remote collection the pages are served from.
Call(element, pc) ==
    [kind |-> element.kind, accountId |-> element.accountId,
     zoneId |-> element.zoneId, pc |-> pc,
     page |-> 1, totalPages |-> 1, items |-> <<>>, remote |-> <<>>,
     zones |-> <<>>, pending |-> {}, zoneMap |-> MapClear]

\* What a step lets its caller and the tree widget see: completion is
\* "returned" (getChildren returned a node list), "threw" (an exception left
\* getChildren), "pending" (getChildren is suspended at an await) or "none"
\* (not a getChildren step); via names the return statement taken; result is
\* the node list; fired counts the _onDidChangeTreeData.fire() calls and
\* changed lists their arguments.
Step(completion, via, result, fired) ==
    [completion |-> completion, via |-> via, result |-> result, fired |-> fired,
     changed |-> <<>>]

\* The argument of fire() called without one: undefined, which tells the
\* widget that the whole tree changed.
WholeTree == Element("undefined", NoId, NoId)

\* A step that is no getChildren call and calls
\* this._onDidChangeTreeData.fire(element) once.
Fired(element) ==
    [completion |-> "none", via |-> "none", result |-> <<>>, fired |-> 1,
     changed |-> <<element>>]

Init ==
    /\ zonesCache = MapClear
    /\ recordsCache = MapClear
    /\ membersCache = MapClear
    /\ loadingAccounts = {}
    /\ loadingZones = {}
    /\ loadingMembers = {}
    /\ instance = FALSE
    /\ inflight = {}
    /\ issued = {}
    /\ last = Step("none", "none", <<>>, 0)

\* ------------------------------------------------------- thrown exceptions

Error(message) == [isError |-> TRUE, message |-> message]
\* a rejection whose value is not an Error object
NonError == [isError |-> FALSE, message |-> <<>>]

\* only the first of the provider's messages
firstMessage(errors) == IF errors = <<>> THEN <<>> ELSE <<Head(errors)>>

\* data.errors.map(e => e.message).join(', ')
RECURSIVE Join(_)
Join(errors) ==
    IF errors = <<>> THEN <<>>
    ELSE IF Len(errors) = 1 THEN <<Head(errors)>>
    ELSE <<Head(errors), ", ">> \o Join(Tail(errors))

NotInitialized == Error(<<"StorageService not initialized. Call initialize() first.">>)
\* what a failing secret-storage read may reject with
StoreRejections == {Error(<<"secret storage unavailable">>), NonError}
\* what a failing fetch() or response.json() rejects with
FetchRejection == Error(<<"fetch failed">>)

\* ----------------------------------------------------- user configuration

\* Values of the record-type allow-list setting (the first is the default).
VisibleTypeConfigs == {<<"A", "AAAA", "CNAME", "MX", "TXT">>, <<"A">>}

\* ------------------------------------------------------ record filter/sort

\* Collation order of the strings the model compares with localeCompare.
Collation == <<"a", "A", "AAAA", "b", "c", "CNAME", "MX", "SRV", "TXT">>
CollationIndex(s) == CHOOSE i \in 1..Len(Collation) : Collation[i] = s

\* String.prototype.localeCompare: negative, zero or positive
localeCompare(x, y) == CollationIndex(x) - CollationIndex(y)

\* a comparator that looks at the names only
compareNames(a, b) == localeCompare(a.name, b.name)

\* the comparator handed to Array.prototype.sort
compareRecords(a, b) ==
    LET typeCompare == localeCompare(a.type, b.type)
    IN  IF typeCompare # 0 THEN typeCompare ELSE localeCompare(a.name, b.name)

\* Array.prototype.includes
includes(array, x) == \E i \in 1..Len(array) : array[i] = x

\* Array.prototype.sort (stable): insertion behind every element not greater
RECURSIVE InsertSorted(_, _)
InsertSorted(sorted, r) ==
    IF sorted = <<>> THEN <<r>>
    ELSE IF compareRecords(Head(sorted), r) <= 0
         THEN <<Head(sorted)>> \o InsertSorted(Tail(sorted), r)
         ELSE <<r>> \o sorted

RECURSIVE StableSort(_)
StableSort(s) ==
    IF s = <<>> THEN <<>>
    ELSE InsertSorted(StableSort(SubSeq(s, 1, Len(s) - 1)), s[Len(s)])

\* the allow-list read once and kept: the filter uses the default list
\* whatever the setting is at the time of the call
filterAndSortDefaultTypes(records, visibleTypes) ==
    LET Visible(r) == includes(<<"A", "AAAA", "CNAME", "MX", "TXT">>, r.type)
        filtered == SelectSeq(records, Visible)
    IN  SeqMap(DnsRecordTreeItem, StableSort(filtered))

filterAndSortRecords(records, visibleTypes) ==
    LET Visible(r) == includes(visibleTypes, r.type)
        filtered == SelectSeq(records, Visible)
    IN  SeqMap(DnsRecordTreeItem, StableSort(filtered))

\* the sort applied to the array that was passed in
recordsSortedInPlace(records, visibleTypes) == StableSort(records)

\* The array passed to filterAndSortRecords, after the call: filter() builds
\* a new array and sort() reorders that one.
recordsAfterFilterAndSort(records, visibleTypes) == records

\* ------------------------------------------------------- catch clauses

\* error instanceof Error ? error.message : <fallback>
messageOf(error, fallback) == IF error.isError THEN error.message ELSE fallback

\* What a handler's call ends with, as a pair <<completion, node list>>.
Returned(items) == <<"returned", items>>
Thrown == <<"threw", <<>>>>

\* catch (error) of getAccountItems
catchAccountItems(error) ==
    Returned(<<ErrorTreeItem(<<"Failed to load accounts">>)>>)
\* getZoneItems without its catch clause: the exception leaves getChildren
uncaughtZoneItems(error) == Thrown

\* catch (error) of getZoneItems
catchZoneItems(error) ==
    Returned(<<ErrorTreeItem(messageOf(error, <<"Failed to load domains">>))>>)
\* catch (error) of getDnsRecordItems
catchDnsRecordItems(error) ==
    Returned(<<ErrorTreeItem(messageOf(error, <<"Failed to load records">>))>>)
\* catch (error) of getMemberItems
catchMemberItems(error) ==
    Returned(<<ErrorTreeItem(messageOf(error, <<"Failed to load members">>))>>)

\* ------------------------------------------------------ refresh operations

\* the loop over recordsCache.keys() stopping at the first key it deletes
oneAccountRecordKey(accountId) ==
    LET matching == {key \in DOMAIN recordsCache : startsWith(key, accountId)}
    IN  IF matching = {} THEN {} ELSE {CHOOSE key \in matching : TRUE}

\* the keys of recordsCache that refreshAccount deletes
accountRecordKeys(accountId) ==
    {key \in DOMAIN recordsCache : startsWith(key, accountId)}

\* the body of refresh(): the three tables are cleared, one event is fired
refreshBody ==
    /\ zonesCache' = MapClear
    /\ recordsCache' = MapClear
    /\ membersCache' = MapClear
    /\ last' = Fired(WholeTree)

\* refresh() also emptying the three loading-guard sets
refreshClearingGuards ==
    /\ refreshBody
    /\ loadingAccounts' = {}
    /\ loadingZones' = {}
    /\ loadingMembers' = {}
    /\ UNCHANGED <<instance, inflight, issued>>

refresh ==
    /\ refreshBody
    /\ UNCHANGED <<guards, instance, inflight, issued>>

\* refreshAccount without this.membersCache.delete(accountId)
refreshAccountKeepingMembers(accountId) ==
    /\ Element("account", accountId, NoId) \in issued
    /\ zonesCache' = MapDelete(zonesCache, accountId)
    /\ recordsCache' = [key \in (DOMAIN recordsCache) \ accountRecordKeys(accountId)
                          |-> recordsCache[key]]
    /\ last' = Fired(WholeTree)
    /\ UNCHANGED <<membersCache, guards, instance, inflight, issued>>

refreshAccount(accountId) ==
    /\ Element("account", accountId, NoId) \in issued
    /\ zonesCache' = MapDelete(zonesCache, accountId)
    /\ membersCache' = MapDelete(membersCache, accountId)
    /\ recordsCache' = [key \in (DOMAIN recordsCache) \ accountRecordKeys(accountId)
                          |-> recordsCache[key]]
    /\ last' = Fired(WholeTree)
    /\ UNCHANGED <<guards, instance, inflight, issued>>

\* the body of refreshZone(accountId, zoneId): the records entry is deleted,
\* one event is fired
refreshZoneBody(accountId, zoneId) ==
    /\ recordsCache' = MapDelete(recordsCache, cacheKey(accountId, zoneId))
    /\ last' = Fired(WholeTree)
    /\ UNCHANGED <<zonesCache, membersCache>>

refreshZone(accountId, zoneId) ==
    /\ Element("zone", accountId, zoneId) \in issued
    /\ refreshZoneBody(accountId, zoneId)
    /\ UNCHANGED <<guards, instance, inflight, issued>>

\* ------------------------------------------------------------ StorageService

\* StorageService.initialize, called by activate
initialize ==
    /\ ~instance
    /\ instance' = TRUE
    /\ last' = Step("none", "none", <<>>, 0)
    /\ UNCHANGED <<caches, guards, inflight, issued>>

\* ------------------------------------------------- getChildren: first run
\* Each action below is a getChildren call from its entry to its first await
\* or, when it does not reach one, to its return.

\* the loading check left out: every request starts a load
neverLoading(loading, key) == FALSE

\* "Check if already loading": this.loadingX.has(key)
alreadyLoading(loading, key) == key \in loading

\* The call returns: its outcome is recorded and the widget receives the nodes.
Return(via, outcome) ==
    /\ last' = Step(outcome[1], via, outcome[2], 0)
    /\ issued' = issued \cup Expandable(outcome[2])

\* The call suspends at an await.
Suspend(call) ==
    /\ Cardinality(inflight) < MaxCalls
    /\ inflight' = inflight \cup {call}
    /\ last' = Step("pending", "none", <<>>, 0)
    /\ UNCHANGED issued

\* getChildren(): root
getAccountItems ==
    /\ Call(RootElement, "getAccounts") \notin inflight
    /\ IF ~instance
       THEN /\ Return("catchAccounts",
                      catchAccountItems(NotInitialized))
            /\ UNCHANGED inflight
       ELSE Suspend(Call(RootElement, "getAccounts"))
    /\ UNCHANGED <<caches, guards, instance>>

\* the cached node list with the Team Members node always annotated with 0
cachedZoneItemsCountingNone(accountId) ==
    LET zones == zonesCache[accountId]
        Item(zone) == ZoneTreeItem(zone, accountId)
    IN  SeqMap(Item, zones) \o <<TeamMembersTreeItem(accountId, 0)>>

\* the node list of an account whose zones are cached
cachedZoneItems(accountId) ==
    LET zones == zonesCache[accountId]
        Item(zone) == ZoneTreeItem(zone, accountId)
        memberCount == IF MapHas(membersCache, accountId)
                       THEN Len(membersCache[accountId]) ELSE 0
    IN  SeqMap(Item, zones) \o <<TeamMembersTreeItem(accountId, memberCount)>>

\* getChildren(AccountTreeItem)
getZoneItems(accountId) ==
    LET element == Element("account", accountId, NoId) IN
    /\ element \in issued
    /\ IF MapHas(zonesCache, accountId)
       THEN /\ Return("cache",
                      Returned(cachedZoneItems(accountId)))
            /\ UNCHANGED <<guards, inflight>>
       ELSE IF alreadyLoading(loadingAccounts, accountId)
       THEN /\ Return("loading",
                      Returned(<<LoadingTreeItem>>))
            /\ UNCHANGED <<guards, inflight>>
       ELSE IF ~instance
       THEN \* the guard is added, getInstance() throws, the catch removes it
            /\ Return("catch",
                      catchZoneItems(NotInitialized))
            /\ loadingAccounts' = (loadingAccounts \cup {accountId}) \ {accountId}
            /\ UNCHANGED <<loadingZones, loadingMembers, inflight>>
       ELSE /\ loadingAccounts' = loadingAccounts \cup {accountId}
            /\ Suspend(Call(element, "getAccountWithToken"))
            /\ UNCHANGED <<loadingZones, loadingMembers>>
    /\ UNCHANGED <<caches, instance>>

\* getChildren(ZoneTreeItem) when the records of the zone are cached and the
\* allow-list setting is visibleTypes: the cached array is handed to
\* filterAndSortRecords
cachedDnsRecordItems(accountId, zoneId, visibleTypes) ==
    LET key == cacheKey(accountId, zoneId) IN
    /\ Element("zone", accountId, zoneId) \in issued
    /\ MapHas(recordsCache, key)
    /\ Return("cache",
              Returned(filterAndSortRecords(recordsCache[key], visibleTypes)))
    /\ recordsCache' = MapSet(recordsCache, key,
                           recordsAfterFilterAndSort(recordsCache[key], visibleTypes))
    /\ UNCHANGED <<zonesCache, membersCache, guards, instance, inflight>>

\* getChildren(ZoneTreeItem)
getDnsRecordItems(accountId, zoneId) ==
    LET element == Element("zone", accountId, zoneId)
        key == cacheKey(accountId, zoneId)
    IN
    /\ element \in issued
    /\ IF MapHas(recordsCache, key)
       THEN \E visibleTypes \in VisibleTypeConfigs :
              cachedDnsRecordItems(accountId, zoneId, visibleTypes)
       ELSE /\ IF alreadyLoading(loadingZones, key)
               THEN /\ Return("loading",
                              Returned(<<LoadingTreeItem>>))
                    /\ UNCHANGED <<guards, inflight>>
               ELSE IF ~instance
               THEN /\ Return("catch",
                              catchDnsRecordItems(NotInitialized))
                    /\ loadingZones' = (loadingZones \cup {key}) \ {key}
                    /\ UNCHANGED <<loadingAccounts, loadingMembers, inflight>>
               ELSE /\ loadingZones' = loadingZones \cup {key}
                    /\ Suspend(Call(element, "getAccountWithToken"))
                    /\ UNCHANGED <<loadingAccounts, loadingMembers>>
            /\ UNCHANGED <<caches, instance>>

\* const zoneMap = new Map(); for (const zone of cachedZones) zoneMap.set(zone.id, zone.name)
cachedZoneMap(accountId) ==
    IF MapHas(zonesCache, accountId)
    THEN LET zones == zonesCache[accountId]
             lastOf(id) == CHOOSE i \in 1..Len(zones) :
                              /\ zones[i].id = id
                              /\ \A j \in (i + 1)..Len(zones) : zones[j].id # id
         IN  [id \in {zones[i].id : i \in 1..Len(zones)} |-> zones[lastOf(id)].name]
    ELSE MapClear

\* the node list of a team-members node whose members are cached or fetched
memberItems(members, accountId, zoneMap) ==
    LET Item(member) == MemberTreeItem(member, accountId, zoneMap)
    IN  IF Len(members) = 0
        THEN <<EmptyTreeItem(<<"No team members">>)>>
        ELSE SeqMap(Item, members)

\* getChildren(TeamMembersTreeItem)
getMemberItems(accountId) ==
    LET element == Element("teamMembers", accountId, NoId) IN
    /\ element \in issued
    /\ IF MapHas(membersCache, accountId)
       THEN /\ Return("cache",
                      Returned(memberItems(membersCache[accountId], accountId,
                                           cachedZoneMap(accountId))))
            /\ UNCHANGED <<guards, inflight>>
       ELSE IF alreadyLoading(loadingMembers, accountId)
       THEN /\ Return("loading",
                      Returned(<<LoadingTreeItem>>))
            /\ UNCHANGED <<guards, inflight>>
       ELSE IF ~instance
       THEN /\ Return("catch",
                      catchMemberItems(NotInitialized))
            /\ loadingMembers' = (loadingMembers \cup {accountId}) \ {accountId}
            /\ UNCHANGED <<loadingAccounts, loadingZones, inflight>>
       ELSE /\ loadingMembers' = loadingMembers \cup {accountId}
            /\ Suspend([Call(element, "getAccountWithToken")
                          EXCEPT !.zoneMap = cachedZoneMap(accountId)])
            /\ UNCHANGED <<loadingAccounts, loadingZones>>
    /\ UNCHANGED <<caches, instance>>

\* getChildren on a record, member or placeholder node: return []
getChildrenOfLeaf ==
    /\ last.completion = "returned"
    /\ \E i \in 1..Len(last.result) :
         /\ last.result[i].kind \notin {"account", "zone", "teamMembers"}
         /\ last' = Step("returned", "leaf", <<>>, 0)
    /\ UNCHANGED <<caches, guards, instance, inflight, issued>>

\* ------------------------------------------------ getChildren: resumptions
\* Each action below resumes one suspended call when what it awaits settles,
\* and runs it to its next await or to its return.

\* The call ends: it leaves inflight and its outcome is recorded.
Finish(call, via, outcome) ==
    /\ inflight' = inflight \ {call}
    /\ Return(via, outcome)

\* The call goes on to another await.
Continue(call, next) ==
    /\ inflight' = (inflight \ {call}) \cup {next}
    /\ last' = Step("pending", "none", <<>>, 0)
    /\ UNCHANGED issued

\* the account nodes without the check for an empty store
accountItemsUnchecked(accounts) == SeqMap(AccountTreeItem, accounts)

\* the node list getAccountItems makes of the accounts read from the store
accountItems(accounts) ==
    IF Len(accounts) = 0
    THEN <<EmptyTreeItem(<<"No accounts configured. Click + to add one.">>)>>
    ELSE SeqMap(AccountTreeItem, accounts)

\* what the Account Store may hold
StoredAccountLists == {<<>>, StoredAccounts}

\* await storageService.getAccounts() resolves with the accounts of the store
accountsRead(accounts) ==
    LET call == Call(RootElement, "getAccounts") IN
    /\ call \in inflight
    /\ Finish(call, "accounts", Returned(accountItems(accounts)))
    /\ UNCHANGED <<caches, guards, instance>>

\* await storageService.getAccounts() rejects: a secret-storage read failed
accountsRejected(error) ==
    LET call == Call(RootElement, "getAccounts") IN
    /\ call \in inflight
    /\ Finish(call, "catchAccounts", catchAccountItems(error))
    /\ UNCHANGED <<caches, guards, instance>>

\* await storageService.getAccounts() settles in getAccountItems
getAccountsSettles ==
    \/ \E accounts \in StoredAccountLists : accountsRead(accounts)
    \/ \E error \in StoreRejections : accountsRejected(error)

\* this.loadingX.delete(key) in the catch clause of the call's handler
ReleaseGuard(call) ==
    /\ loadingAccounts' = IF call.kind = "account"
                          THEN loadingAccounts \ {call.accountId}
                          ELSE loadingAccounts
    /\ loadingZones' = IF call.kind = "zone"
                       THEN loadingZones \ {cacheKey(call.accountId, call.zoneId)}
                       ELSE loadingZones
    /\ loadingMembers' = IF call.kind = "teamMembers"
                         THEN loadingMembers \ {call.accountId}
                         ELSE loadingMembers

\* the catch clause of the call's handler
catchOf(call, error) ==
    CASE call.kind = "account" -> catchZoneItems(error)
      [] call.kind = "zone" -> catchDnsRecordItems(error)
      [] call.kind = "teamMembers" -> catchMemberItems(error)

\* a catch clause that also drops every cache table
CaughtClearingCaches(call, error) ==
    /\ ReleaseGuard(call)
    /\ Finish(call, "catch", catchOf(call, error))
    /\ zonesCache' = MapClear
    /\ recordsCache' = MapClear
    /\ membersCache' = MapClear

\* An exception reaches the outer catch of the handler.
Caught(call, error) ==
    /\ ReleaseGuard(call)
    /\ Finish(call, "catch", catchOf(call, error))
    /\ UNCHANGED caches

\* the collection the server serves the awaited page of the call from
servedTo(call) ==
    IF call.page > 1 THEN {call.remote}
    ELSE CASE call.pc = "getZones" -> ZoneLists(call.accountId)
           [] call.pc = "getDnsRecords" -> RecordLists(call.accountId)
           [] call.pc = "getMembers" -> MemberLists(call.accountId)
           [] OTHER -> {}

\* The call enters the page loop of getZones, getDnsRecords or getMembers and
\* requests page 1: let page = 1; let totalPages = 1
startFetch(call, pc) ==
    [call EXCEPT !.pc = pc, !.page = 1, !.totalPages = 1, !.items = <<>>,
                 !.pending = {}, !.remote = <<>>]

\* the first remote fetch of each handler
firstFetch(call) ==
    CASE call.kind = "account" -> "getZones"
      [] call.kind = "zone" -> "getDnsRecords"
      [] call.kind = "teamMembers" -> "getMembers"

\* await storageService.getAccountWithToken(id) settles
getAccountWithTokenSettles(call) ==
    /\ call \in inflight
    /\ call.pc = "getAccountWithToken"
    /\ \/ \* no stored account or no token: if (!accountWithToken) return [...]
          /\ call.accountId \notin SteadyAccounts
          /\ Finish(call, "tokenNotFound",
                    Returned(<<ErrorTreeItem(<<"Token not found">>)>>))
          /\ UNCHANGED <<caches, guards>>
       \/ /\ call.accountId \notin SteadyAccounts
          /\ \E error \in StoreRejections : Caught(call, error)
       \/ \* the service is constructed and the first page is requested
          /\ Continue(call, startFetch(call, firstFetch(call)))
          /\ UNCHANGED <<caches, guards>>
    /\ UNCHANGED instance

\* "Cache the zones": the account load completes
completeZoneItems(call, membersLoaded, members) ==
    LET accountId == call.accountId
        zones == call.zones
        memberCount == IF membersLoaded THEN Len(members) ELSE 0
        Item(zone) == ZoneTreeItem(zone, accountId)
        items == (IF Len(zones) = 0
                  THEN <<EmptyTreeItem(<<"No domains found">>)>>
                  ELSE SeqMap(Item, zones))
                 \o <<TeamMembersTreeItem(accountId, memberCount)>>
    IN  /\ membersCache' = IF membersLoaded
                           THEN MapSet(membersCache, accountId, members)
                           ELSE membersCache
        /\ zonesCache' = MapSet(zonesCache, accountId, zones)
        /\ loadingAccounts' = loadingAccounts \ {accountId}
        /\ Finish(call, "loaded", Returned(items))
        /\ UNCHANGED <<recordsCache, loadingZones, loadingMembers>>

\* "Cache the records": the zone load completes
completeDnsRecordItems(call, records) ==
    LET key == cacheKey(call.accountId, call.zoneId) IN
    /\ loadingZones' = loadingZones \ {key}
    /\ IF Len(records) = 0
       THEN /\ recordsCache' = MapSet(recordsCache, key, records)
            /\ Finish(call, "loaded", Returned(<<EmptyTreeItem(<<"No DNS records">>)>>))
       ELSE \E visibleTypes \in VisibleTypeConfigs :
              \* the array just cached is handed to filterAndSortRecords
              /\ recordsCache' =
                   MapSet(recordsCache, key,
                          recordsAfterFilterAndSort(records, visibleTypes))
              /\ Finish(call, "loaded",
                        Returned(filterAndSortRecords(records, visibleTypes)))
    /\ UNCHANGED <<zonesCache, membersCache, loadingAccounts, loadingMembers>>

\* "Cache the members": the team-members load completes
completeMemberItems(call, members) ==
    /\ membersCache' = MapSet(membersCache, call.accountId, members)
    /\ loadingMembers' = loadingMembers \ {call.accountId}
    /\ Finish(call, "loaded",
              Returned(memberItems(members, call.accountId, call.zoneMap)))
    /\ UNCHANGED <<zonesCache, recordsCache, loadingAccounts, loadingZones>>

\* the member fetch of the account load is requested
startMembersOfAccount(call, zones) ==
    startFetch([call EXCEPT !.zones = zones], "getMembers")

\* getZones, getDnsRecords or getMembers returned all its pages
fetchReturns(call, items) ==
    CASE call.kind = "account" /\ call.pc = "getZones" ->
           /\ \E showRecordCount \in BOOLEAN :
                IF showRecordCount /\ Len(items) > 0
                THEN Continue(call, [call EXCEPT !.pc = "getDnsRecordCount",
                                       !.zones = items, !.pending = 1..Len(items),
                                       !.items = <<>>, !.remote = <<>>])
                ELSE Continue(call, startMembersOfAccount(call, items))
           /\ UNCHANGED <<caches, guards>>
      [] call.kind = "account" /\ call.pc = "getMembers" ->
           completeZoneItems(call, TRUE, items)
      [] call.kind = "zone" -> completeDnsRecordItems(call, items)
      [] call.kind = "teamMembers" -> completeMemberItems(call, items)

\* the member fetch of the account load without its own try/catch
fetchThrowsToCatch(call, error) == Caught(call, error)

\* getZones, getDnsRecords or getMembers threw
fetchThrows(call, error) ==
    IF call.kind = "account" /\ call.pc = "getMembers"
    THEN \* "Member loading failed, continue without it"
         completeZoneItems(call, FALSE, <<>>)
    ELSE Caught(call, error)

\* the number of pages the server splits a collection into
totalPagesOf(collection) == (Len(collection) + PageSize - 1) \div PageSize

\* data.result of the answer to the request for a page of a collection
pageOf(collection, page) ==
    SubSeq(collection, (page - 1) * PageSize + 1,
           IF page * PageSize < Len(collection) THEN page * PageSize
           ELSE Len(collection))

\* data.result_info of an answer: present with its total_pages (<<n>>), or
\* absent (<<>>), which a server does only for a collection of one page
ResultInfos(collection) ==
    {<<totalPagesOf(collection)>>}
        \cup (IF totalPagesOf(collection) <= 1 THEN {<<>>} ELSE {})

\* the page of the answer replacing what was accumulated
replacePage(items, result) == result

\* zones.push(...data.result.map(...))
appendPage(items, result) == items \o result

\* the loop ignoring data.result_info
ignoredTotalPages(result_info, totalPages) == totalPages

\* if (data.result_info) { totalPages = data.result_info.total_pages; }
reportedTotalPages(result_info, totalPages) ==
    IF result_info # <<>> THEN result_info[1] ELSE totalPages

\* the awaits of the do-while loops of getZones, getDnsRecords and getMembers
PageLoops == {"getZones", "getDnsRecords", "getMembers"}

\* await fetch(...) or await response.json() rejects
pageRejected(call) ==
    /\ call \in inflight
    /\ call.pc \in PageLoops
    /\ call.accountId \notin SteadyAccounts
    /\ fetchThrows(call, FetchRejection)
    /\ UNCHANGED instance

\* the answer has success:false: throw new Error(data.errors.map(...).join(', '))
pageFailed(call, errors) ==
    /\ call \in inflight
    /\ call.pc \in PageLoops
    /\ call.accountId \notin SteadyAccounts
    /\ fetchThrows(call, Error(Join(errors)))
    /\ UNCHANGED instance

\* the answer carries the requested page of the remote collection, with or
\* without result_info
pageAnswered(call, remote, result_info) ==
    /\ call \in inflight
    /\ call.pc \in PageLoops
    /\ LET items == appendPage(call.items, pageOf(remote, call.page))
           totalPages == reportedTotalPages(result_info, call.totalPages)
           page == call.page + 1
       IN  IF page <= totalPages
           THEN /\ Continue(call, [call EXCEPT !.items = items,
                                     !.totalPages = totalPages, !.page = page,
                                     !.remote = remote])
                /\ UNCHANGED <<caches, guards>>
           ELSE fetchReturns(call, items)
    /\ UNCHANGED instance

\* One page request of the do-while loop of getZones, getDnsRecords or
\* getMembers settles: await fetch(...), await response.json().
pageSettles(call) ==
    \/ pageRejected(call)
    \/ \E errors \in ApiErrorLists : pageFailed(call, errors)
    \/ \E remote \in servedTo(call) : \E result_info \in ResultInfos(remote) :
         pageAnswered(call, remote, result_info)

\* How the count request of a zone may settle: fetch or response.json()
\* throws, the answer has success:false, the answer has no result_info, or
\* the answer reports total_count.
CountAnswers(accountId) ==
    IF accountId \in SteadyAccounts THEN {"total"}
    ELSE {"throws", "failure", "noInfo", "total"}

\* what zone.recordCount becomes: undefined when the request throws, 0 on
\* success:false or a missing result_info, total_count otherwise
recordCountOf(answer) ==
    CASE answer = "throws" -> NoCount
      [] answer = "failure" -> 0
      [] answer = "noInfo" -> 0
      [] answer = "total" -> TotalCount

\* Promise.race in place of Promise.all: the handler goes on as soon as the
\* first count request has settled
countAnsweredFirst(call, i, answer) ==
    /\ call \in inflight
    /\ call.pc = "getDnsRecordCount"
    /\ i \in call.pending
    /\ LET zones == [call.zones EXCEPT ![i].recordCount = recordCountOf(answer)]
       IN  Continue(call, startMembersOfAccount(call, zones))
    /\ UNCHANGED <<caches, guards, instance>>

\* The count request of zone i of the Promise.all fan-out settles with the
\* answer; when it was the last one, the handler goes on to the member fetch.
countAnswered(call, i, answer) ==
    /\ call \in inflight
    /\ call.pc = "getDnsRecordCount"
    /\ i \in call.pending
    /\ LET zones == [call.zones EXCEPT ![i].recordCount = recordCountOf(answer)]
           pending == call.pending \ {i}
       IN  IF pending = {}
           THEN Continue(call, startMembersOfAccount(call, zones))
           ELSE Continue(call, [call EXCEPT !.zones = zones, !.pending = pending])
    /\ UNCHANGED <<caches, guards, instance>>

\* One count request of the Promise.all fan-out settles.
getDnsRecordCountSettles(call, i) ==
    \E answer \in CountAnswers(call.accountId) : countAnswered(call, i, answer)

\* ------------------------------------------------------------------ commands
\* The commands that change DNS records or the membership of an account at
\* the provider.  A running command is a suspended call whose kind is the
\* command; for an invite, pending holds the e-mail addresses still to be
\* invited and items the results of the ones already tried.

DnsCommands == {"addDnsRecord", "editDnsRecord", "deleteDnsRecord", "toggleProxy"}
MemberCommands ==
    {"inviteMember", "editMemberPermissions", "resendInvitation", "removeMember"}

\* the first request a command makes to the remote API to change something
apiMethod(command) ==
    CASE command = "addDnsRecord" -> "createDnsRecord"
      [] command = "editDnsRecord" -> "updateDnsRecord"
      [] command = "deleteDnsRecord" -> "deleteDnsRecord"
      [] command = "toggleProxy" -> "toggleProxy"
      [] command = "inviteMember" -> "inviteMember"
      [] command = "editMemberPermissions" -> "updateMember"
      [] command = "resendInvitation" -> "removeMember"
      [] command = "removeMember" -> "removeMember"

\* the node a command was invoked on, as the call it becomes
Command(command, accountId, zoneId) ==
    Call(Element(command, accountId, zoneId), "command.getAccountWithToken")

\* a run of the command on the node is under way (the model follows one run
\* of a command per node at a time)
Running(command, accountId, zoneId) ==
    \E call \in inflight : /\ call.kind = command
                           /\ call.accountId = accountId
                           /\ call.zoneId = zoneId

\* The command ends without having called the provider: a return or the
\* catch clause with its error message.
CommandEnds(call) ==
    /\ inflight' = inflight \ {call}
    /\ last' = Step("none", "none", <<>>, 0)
    /\ UNCHANGED <<caches, guards, instance, issued>>

\* A command is dismissed at one of its prompts (or refused: a record that
\* cannot be proxied, a member that is not pending) before its first await
\* on the store.
commandCancelled ==
    /\ last' = Step("none", "none", <<>>, 0)
    /\ UNCHANGED <<caches, guards, instance, inflight, issued>>

\* addDnsRecord on a zone node, editDnsRecord, deleteDnsRecord or toggleProxy
\* on a record node of the zone: the prompts are answered and the handler
\* awaits getAccountWithToken
dnsCommand(command, accountId, zoneId) ==
    /\ Element("zone", accountId, zoneId) \in issued
    /\ instance
    /\ ~Running(command, accountId, zoneId)
    /\ Suspend(Command(command, accountId, zoneId))
    /\ UNCHANGED <<caches, guards, instance>>

\* inviteMember on an account node, editMemberPermissions, resendInvitation
\* or removeMember on a member node of the account
memberCommand(command, accountId) ==
    /\ Element(IF command = "inviteMember" THEN "account" ELSE "teamMembers",
               accountId, NoId) \in issued
    /\ instance
    /\ ~Running(command, accountId, NoId)
    /\ Suspend(Command(command, accountId, NoId))
    /\ UNCHANGED <<caches, guards, instance>>

\* await storageService.getAccountWithToken(id) settles in a command; for a
\* member command the prompts and the role and zone look-ups follow, and any
\* of them may end the command.
commandTokenSettles(call) ==
    /\ call \in inflight
    /\ call.pc = "command.getAccountWithToken"
    /\ \/ \* no token, a rejected read, a dismissed prompt, a failed look-up
          /\ call.accountId \notin SteadyAccounts
          /\ CommandEnds(call)
       \/ \* the request that changes something is sent
          /\ \E emails \in 1..MaxEmails :
               Continue(call, [call EXCEPT
                                 !.pc = apiMethod(call.kind),
                                 !.pending = IF call.kind = "inviteMember"
                                             THEN 1..emails ELSE {}])
          /\ UNCHANGED <<caches, guards, instance>>

\* the command editing the cached record list in place
dnsRequestPatches(call) ==
    LET key == cacheKey(call.accountId, call.zoneId) IN
    /\ call \in inflight
    /\ call.kind \in DnsCommands
    /\ call.pc = apiMethod(call.kind)
    /\ recordsCache' = IF MapHas(recordsCache, key)
                       THEN MapSet(recordsCache, key, Tail(recordsCache[key]))
                       ELSE recordsCache
    /\ last' = Fired(WholeTree)
    /\ inflight' = inflight \ {call}
    /\ UNCHANGED <<zonesCache, membersCache, guards, instance, issued>>

\* createDnsRecord, updateDnsRecord, deleteDnsRecord or toggleProxy
\* succeeded: treeDataProvider.refreshZone(accountId, zoneId)
dnsRequestSucceeded(call) ==
    /\ call \in inflight
    /\ call.kind \in DnsCommands
    /\ call.pc = apiMethod(call.kind)
    /\ refreshZoneBody(call.accountId, call.zoneId)
    /\ inflight' = inflight \ {call}
    /\ UNCHANGED <<guards, instance, issued>>

\* the request of a DNS command threw (a rejected fetch, or success:false):
\* the catch clause shows the message
dnsRequestFailed(call) ==
    /\ call \in inflight
    /\ call.kind \in DnsCommands
    /\ call.pc = apiMethod(call.kind)
    /\ call.accountId \notin SteadyAccounts
    /\ CommandEnds(call)

\* The member command calls treeDataProvider.refresh() and ends.
CommandRefreshes(call) ==
    /\ refreshBody
    /\ inflight' = inflight \ {call}
    /\ UNCHANGED <<guards, instance, issued>>

\* One e-mail address of an invite was tried (results.push): the loop goes
\* on to the next one, and after the last one the tree is refreshed.
inviteTried(call, success) ==
    LET email == CHOOSE i \in call.pending : \A j \in call.pending : i <= j
        next == [call EXCEPT !.pending = call.pending \ {email},
                             !.items = Append(call.items, success)]
    IN  IF next.pending = {}
        THEN CommandRefreshes(call)
        ELSE /\ Continue(call, next)
             /\ UNCHANGED <<caches, guards, instance>>

\* member.roles.map(r => r.id) of a pending member: no direct role (the
\* access comes from domain policies only), or one
RoleIdLists == {<<>>, <<"r1">>}

\* The command ends in its catch clause, which shows the message of the
\* error that was thrown.
CommandShowsError(call, message) ==
    /\ inflight' = inflight \ {call}
    /\ last' = Step("none", "showErrorMessage", message, 0)
    /\ UNCHANGED <<caches, guards, instance, issued>>

\* resendInvitation after its removeMember resolved: inviteMember is called
\* with the role ids and no policies; it throws before any request when the
\* list is empty, and sends the invitation otherwise.
resendRemoved(call, roleIds) ==
    IF roleIds = <<>>
    THEN CommandShowsError(call, <<"Either roles or policies must be provided">>)
    ELSE /\ Continue(call, [call EXCEPT !.pc = "inviteMember"])
         /\ UNCHANGED <<caches, guards, instance>>

\* the request a member command awaits succeeded
memberRequestSucceeded(call) ==
    /\ call \in inflight
    /\ call.kind \in MemberCommands
    /\ call.pc \in {"inviteMember", "updateMember", "removeMember"}
    /\ IF call.kind = "inviteMember"
       THEN inviteTried(call, TRUE)
       ELSE IF call.kind = "resendInvitation" /\ call.pc = "removeMember"
       THEN \* resendInvitation: the removal is done, the re-invite follows
            \E roleIds \in RoleIdLists : resendRemoved(call, roleIds)
       ELSE CommandRefreshes(call)

\* the request a member command awaits threw
memberRequestFailed(call) ==
    /\ call \in inflight
    /\ call.kind \in MemberCommands
    /\ call.pc \in {"inviteMember", "updateMember", "removeMember"}
    /\ call.accountId \notin SteadyAccounts
    /\ IF call.kind = "inviteMember"
       THEN inviteTried(call, FALSE)
       ELSE \* the exception reaches the catch clause of the command
            CommandEnds(call)

\* ------------------------------------------------------------ specification

\* the steps of the provider itself: resumptions of suspended calls
Resume ==
    \/ getAccountsSettles
    \/ \E call \in inflight : getAccountWithTokenSettles(call)
    \/ \E call \in inflight : pageSettles(call)
    \/ \E call \in inflight : \E i \in call.pending : getDnsRecordCountSettles(call, i)

\* the steps of the environment: activation, the tree widget, the commands
Request ==
    \/ initialize
    \/ getAccountItems
    \/ \E accountId \in AccountIds : getZoneItems(accountId)
    \/ \E accountId \in AccountIds, zoneId \in ZoneIds : getDnsRecordItems(accountId, zoneId)
    \/ \E accountId \in AccountIds : getMemberItems(accountId)
    \/ getChildrenOfLeaf
    \/ refresh
    \/ \E accountId \in AccountIds : refreshAccount(accountId)
    \/ \E accountId \in AccountIds, zoneId \in ZoneIds : refreshZone(accountId, zoneId)

Next == Request \/ Resume

Spec == Init /\ [][Next]_vars

\* Every await settles: a suspended call is eventually resumed.
FairSpec == Spec /\ WF_vars(Resume)

\* The provider once the store is initialized and the root listed the account
\* whose collections take several pages.
PagedInit ==
    /\ zonesCache = MapClear
    /\ recordsCache = MapClear
    /\ membersCache = MapClear
    /\ loadingAccounts = {}
    /\ loadingZones = {}
    /\ loadingMembers = {}
    /\ instance = TRUE
    /\ inflight = {}
    /\ issued = {Element("account", accountId, NoId) : accountId \in PagedAccountIds}
    /\ last = Step("returned", "accounts",
                   SeqMap(AccountTreeItem, <<<<"p">>>>), 0)

PagedNext ==
    \/ \E accountId \in PagedAccountIds : getZoneItems(accountId)
    \/ \E accountId \in PagedAccountIds, zoneId \in PagedZoneIds :
         getDnsRecordItems(accountId, zoneId)
    \/ \E accountId \in PagedAccountIds : getMemberItems(accountId)
    \/ refresh
    \/ \E call \in inflight : getAccountWithTokenSettles(call)
    \/ \E call \in inflight : pageSettles(call)
    \/ \E call \in inflight : \E i \in call.pending : getDnsRecordCountSettles(call, i)

PagedSpec == PagedInit /\ [][PagedNext]_vars

\* Account and zone ids built around the ":" separator of the record key.
KeyAccountIds == {<<"a">>, <<"a", ":", "b">>}
KeyZoneIds == {<<"c">>, <<"b", ":", "c">>}

\* The provider after the accounts and their zones were listed and refresh()
\* was called: the widget holds the nodes, the cache tables are empty.
KeyInit ==
    /\ zonesCache = MapClear
    /\ recordsCache = MapClear
    /\ membersCache = MapClear
    /\ loadingAccounts = {}
    /\ loadingZones = {}
    /\ loadingMembers = {}
    /\ instance = TRUE
    /\ inflight = {}
    /\ issued = {Element("account", accountId, NoId) : accountId \in KeyAccountIds}
                \cup {Element("teamMembers", accountId, NoId) : accountId \in KeyAccountIds}
                \cup {Element("zone", accountId, zoneId) :
                        accountId \in KeyAccountIds, zoneId \in KeyZoneIds}
    /\ last = Fired(WholeTree)

KeyNext ==
    \/ \E accountId \in KeyAccountIds, zoneId \in KeyZoneIds :
         getDnsRecordItems(accountId, zoneId)
    \/ \E accountId \in KeyAccountIds, zoneId \in KeyZoneIds :
         refreshZone(accountId, zoneId)
    \/ \E call \in inflight : getAccountWithTokenSettles(call)
    \/ \E call \in inflight : pageSettles(call)

KeySpec == KeyInit /\ [][KeyNext]_vars

\* The root and account levels of the tree from the activation of the
\* extension on.
StoreNext ==
    \/ initialize
    \/ getAccountItems
    \/ getAccountsSettles
    \/ \E accountId \in AccountIds : getZoneItems(accountId)
    \/ \E call \in inflight : getAccountWithTokenSettles(call)
    \/ \E call \in inflight : pageSettles(call)
    \/ \E call \in inflight : \E i \in call.pending : getDnsRecordCountSettles(call, i)
    \/ getChildrenOfLeaf
    \/ refresh

StoreSpec == Init /\ [][StoreNext]_vars

\* The account the commands of CommandSpec are run on, and its zone.
CommandAccountIds == {<<"a">>}
CommandZoneIds == {<<"z">>}

\* The provider after account a, the records of its zone and its members
\* were listed: the three entries are cached and the widget holds the nodes.
CommandInit ==
    /\ zonesCache = MapSet(MapClear, <<"a">>, <<Zone(<<"z">>)>>)
    /\ recordsCache = MapSet(MapClear, cacheKey(<<"a">>, <<"z">>),
                             <<DnsRecord("TXT", "b"), DnsRecord("A", "a")>>)
    /\ membersCache = MapSet(MapClear, <<"a">>, <<"m1">>)
    /\ loadingAccounts = {}
    /\ loadingZones = {}
    /\ loadingMembers = {}
    /\ instance = TRUE
    /\ inflight = {}
    /\ issued = {Element("account", <<"a">>, NoId), Element("zone", <<"a">>, <<"z">>),
                 Element("teamMembers", <<"a">>, NoId)}
    /\ last = Step("returned", "cache",
                   memberItems(<<"m1">>, <<"a">>, cachedZoneMap(<<"a">>)), 0)

CommandNext ==
    \/ commandCancelled
    \/ \E command \in DnsCommands, accountId \in CommandAccountIds,
          zoneId \in CommandZoneIds : dnsCommand(command, accountId, zoneId)
    \/ \E command \in MemberCommands, accountId \in CommandAccountIds :
         memberCommand(command, accountId)
    \/ \E call \in inflight : commandTokenSettles(call)
    \/ \E call \in inflight : dnsRequestSucceeded(call)
    \/ \E call \in inflight : dnsRequestFailed(call)
    \/ \E call \in inflight : memberRequestSucceeded(call)
    \/ \E call \in inflight : memberRequestFailed(call)
    \/ \E accountId \in CommandAccountIds, zoneId \in CommandZoneIds :
         getDnsRecordItems(accountId, zoneId)
    \/ \E accountId \in CommandAccountIds : getMemberItems(accountId)
    \/ \E call \in inflight : getAccountWithTokenSettles(call)
    \/ \E call \in inflight : pageSettles(call)

CommandSpec == CommandInit /\ [][CommandNext]_vars

\* The three refresh operations next to the loads of account a, its zone and
\* its members, from the state in which the three entries are cached.
RefreshNext ==
    \/ refresh
    \/ \E accountId \in CommandAccountIds : refreshAccount(accountId)
    \/ \E accountId \in CommandAccountIds, zoneId \in CommandZoneIds :
         refreshZone(accountId, zoneId)
    \/ \E accountId \in CommandAccountIds : getZoneItems(accountId)
    \/ \E accountId \in CommandAccountIds, zoneId \in CommandZoneIds :
         getDnsRecordItems(accountId, zoneId)
    \/ \E accountId \in CommandAccountIds : getMemberItems(accountId)
    \/ \E call \in inflight : getAccountWithTokenSettles(call)
    \/ \E call \in inflight : pageSettles(call)
    \/ \E call \in inflight : \E i \in call.pending : getDnsRecordCountSettles(call, i)

RefreshSpec == CommandInit /\ [][RefreshNext]_vars

\* The records the cached lists of SortSpec are made of, and the values of
\* the allow-list setting tried on them.
SortRecords ==
    {DnsRecord("TXT", "b"), DnsRecord("A", "a"), DnsRecord("A", "c"),
     DnsRecord("MX", "a"), DnsRecord("SRV", "b")}
SortTypeConfigs == VisibleTypeConfigs \cup {<<"A", "TXT">>, <<"TXT", "A">>, <<>>}
SortRecordLists == UNION {[1..n -> SortRecords] : n \in 0..MaxRecords}

\* The provider with the records of zone z of account a cached, in whatever
\* order the server sent them, after the account and the zone were listed.
SortInit ==
    /\ zonesCache = MapSet(MapClear, <<"a">>, <<Zone(<<"z">>)>>)
    /\ recordsCache \in {MapSet(MapClear, cacheKey(<<"a">>, <<"z">>), records) :
                            records \in SortRecordLists}
    /\ membersCache = MapClear
    /\ loadingAccounts = {}
    /\ loadingZones = {}
    /\ loadingMembers = {}
    /\ instance = TRUE
    /\ inflight = {}
    /\ issued = {Element("account", <<"a">>, NoId), Element("zone", <<"a">>, <<"z">>),
                 Element("teamMembers", <<"a">>, NoId)}
    /\ last = Step("returned", "leaf", <<>>, 0)

SortNext ==
    \/ \E visibleTypes \in SortTypeConfigs :
         cachedDnsRecordItems(<<"a">>, <<"z">>, visibleTypes)
    \/ getChildrenOfLeaf

SortSpec == SortInit /\ [][SortNext]_vars

\* ------------------------------------------------------- cache key states

\* the guard set and the cache table of the key a call loads
Loading(call) ==
    CASE call.kind = "account" -> call.accountId \in loadingAccounts
      [] call.kind = "zone" -> cacheKey(call.accountId, call.zoneId) \in loadingZones
      [] call.kind = "teamMembers" -> call.accountId \in loadingMembers
      [] OTHER -> FALSE

Present(call) ==
    CASE call.kind = "account" -> MapHas(zonesCache, call.accountId)
      [] call.kind = "zone" -> MapHas(recordsCache, cacheKey(call.accountId, call.zoneId))
      [] call.kind = "teamMembers" -> MapHas(membersCache, call.accountId)
      [] OTHER -> FALSE

\* the calls that have a remote fetch of a collection outstanding
FetchingZones(accountId) ==
    {call \in inflight : call.pc = "getZones" /\ call.accountId = accountId}
FetchingRecords(accountId, zoneId) ==
    {call \in inflight : /\ call.pc = "getDnsRecords"
                         /\ call.accountId = accountId
                         /\ call.zoneId = zoneId}
FetchingMembers(accountId) ==
    {call \in inflight : call.pc = "getMembers" /\ call.accountId = accountId}

\* the entry of a key in a cache table: <<value>>, or <<>> when absent
Entry(m, k) == IF MapHas(m, k) THEN <<m[k]>> ELSE <<>>

\* everything the cache tables hold for an account
EntriesOf(accountId) ==
    <<Entry(zonesCache, accountId), Entry(membersCache, accountId),
      [zoneId \in ZoneIds |-> Entry(recordsCache, cacheKey(accountId, zoneId))]>>

\* A getChildren call on the node would get past the cache check and the
\* loading check, that is, start a new load.
StartsLoad(loading, cache, key) == ~MapHas(cache, key) /\ ~alreadyLoading(loading, key)

\* In this step the call goes round its page loop once more: it is suspended
\* at the same await again.
LoopContinues(call) ==
    \E next \in inflight' \ inflight :
        /\ next.pc = call.pc
        /\ next.kind = call.kind
        /\ next.accountId = call.accountId
        /\ next.zoneId = call.zoneId

\* the member fetch made inside the account load (best effort)
MemberFetchOfAccount(call) == call.kind = "account" /\ call.pc = "getMembers"

\* the awaits of a load at which a request to the remote API is outstanding
RemoteAwaits == PageLoops \cup {"getDnsRecordCount"}

\* the step is a getChildren call on the node the suspended call was made on
RequestedAgain(call) ==
    CASE call.kind = "account" -> getZoneItems(call.accountId)
      [] call.kind = "zone" -> getDnsRecordItems(call.accountId, call.zoneId)
      [] call.kind = "teamMembers" -> getMemberItems(call.accountId)
      [] OTHER -> FALSE

\* the suspended calls of the step's successor state that were not suspended
\* (at that await, with those locals) before it
Resumed == inflight' \ inflight

\* the command leaves inflight in this step: its handler has returned
Ended(call) == inflight' = inflight \ {call}

\* The membership of the account at the provider was changed by the member
\* command by the end of this step: the request settling now succeeded, an
\* earlier e-mail address of the invite was accepted, or the removal of a
\* resend was done.
MembershipChanged(call) ==
    \/ memberRequestSucceeded(call)
    \/ /\ call.kind = "inviteMember"
       /\ \E i \in 1..Len(call.items) : call.items[i]
    \/ /\ call.kind = "resendInvitation"
       /\ call.pc = "inviteMember"

\* the records of a list of record nodes
RecordOf(item) == item.record

\* how many times x occurs in the sequence s
Occurrences(s, x) == Cardinality({i \in 1..Len(s) : s[i] = x})

\* the cache table holds the same entries before and after, except for key k
OthersKept(before, after, k) ==
    \A x \in ((DOMAIN before) \cup (DOMAIN after)) \ {k} :
        Entry(before, x) = Entry(after, x)

\* every entry of the table after the step was in it, with the same value,
\* before the step: entries were removed at most
RemovedOnly(before, after) ==
    \A k \in DOMAIN after : MapHas(before, k) /\ after[k] = before[k]

\* zoneMap is the zoneId -> zoneName lookup of the zones entry of the
\* account as the cache holds it now (the empty lookup when it is absent)
IsLookupOf(zoneMap, accountId) ==
    IF MapHas(zonesCache, accountId)
    THEN LET zones == zonesCache[accountId]
         IN  /\ DOMAIN zoneMap = {zones[i].id : i \in 1..Len(zones)}
             /\ \A i \in 1..Len(zones) : zoneMap[zones[i].id] = zones[i].name
    ELSE DOMAIN zoneMap = {}

\* The Scope section of every member node of the list names, for each of the
\* first zone ids of the member's scope (all of them, or the ones up to
\* maxToShow), the zone's name in zoneMap, or the zone id when zoneMap has
\* no entry for it.
ScopesShown(items, zoneMap, all) ==
    \A i \in 1..Len(items) :
        items[i].kind = "member" =>
            LET scope == scopeZoneIds(items[i].member)
                n == IF all \/ Len(scope) < maxToShow THEN Len(scope) ELSE maxToShow
            IN  \A j \in 1..n :
                    /\ j <= Len(items[i].scope)
                    /\ items[i].scope[j] = IF MapHas(zoneMap, scope[j])
                                            THEN zoneMap[scope[j]] ELSE scope[j]

\* The steps of a getChildren call on a team-members node, as far as the
\* cross-reference lookup goes: the call takes its lookup from the zones
\* entry at its start and requests no zones; a suspended call keeps its
\* lookup; the call ends with member nodes (or the empty placeholder) whose
\* scopes are shown by that lookup.
CrossReferenceLookup(all) ==
    /\ \A accountId \in CommandAccountIds :
         getMemberItems(accountId)
            => /\ \A next \in Resumed :
                    /\ next.pc # "getZones"
                    /\ IsLookupOf(next.zoneMap, accountId)
               /\ MapHas(membersCache, accountId)
                    => /\ last'.completion = "returned"
                       /\ Len(last'.result) =
                            (IF membersCache[accountId] = <<>> THEN 1
                             ELSE Len(membersCache[accountId]))
                       /\ \A i \in 1..Len(last'.result) :
                            last'.result[i].kind \in {"member", "empty"}
                       /\ \E zoneMap \in {cachedZoneMap(accountId)} :
                            /\ IsLookupOf(zoneMap, accountId)
                            /\ ScopesShown(last'.result, zoneMap, all)
    /\ \A call \in inflight :
         call.kind = "teamMembers" =>
            /\ (getAccountWithTokenSettles(call) \/ pageSettles(call))
                  => \A next \in Resumed :
                       /\ next.pc = "getMembers"
                       /\ next.zoneMap = call.zoneMap
            /\ \A remote \in servedTo(call) : \A result_info \in ResultInfos(remote) :
                 (pageAnswered(call, remote, result_info) /\ Resumed = {})
                    => /\ last'.completion = "returned"
                       /\ Len(last'.result) = (IF remote = <<>> THEN 1 ELSE Len(remote))
                       /\ \A i \in 1..Len(last'.result) :
                            last'.result[i].kind \in {"member", "empty"}
                       /\ ScopesShown(last'.result, call.zoneMap, all)

\* The suspended load holds items of its collection that the server sent
\* before now: it is in its page loop past page 1.
HoldsFetched(load) == load.pc \in PageLoops /\ load.page > 1

\* The load's last page is answered and the load stores what it accumulated:
\* this.xCache.set(key, items).
StoresFetched(load) ==
    \E remote \in servedTo(load) : \E result_info \in ResultInfos(remote) :
        /\ pageAnswered(load, remote, result_info)
        /\ Present(load)'

\* the kinds of the nodes of a node list, in order
Kinds(items) == [i \in 1..Len(items) |-> items[i].kind]

\* A getChildren call on the node of the load returns a node list with the
\* same kinds of nodes, in the same number, as the last step returned.
AnswersAlike(load) ==
    /\ RequestedAgain(load)
    /\ last'.completion = "returned"
    /\ Kinds(last'.result) = Kinds(last.result)

\* The resend ends with an invitation pending for the member's e-mail
\* address at the provider: the removal failed, so the old one is still
\* there, or the re-invite succeeded.
InvitationKept(call) ==
    \/ call.pc = "removeMember" /\ memberRequestFailed(call)
    \/ call.pc = "inviteMember" /\ memberRequestSucceeded(call)

\* ------------------------------------------------------------------ claims

\* C1: no key is at the same time in its loading-guard set and present in
\* its cache table, for zones (loadingAccounts, zonesCache), records
\* (loadingZones, recordsCache) and members (loadingMembers, membersCache).
C1_StateExclusivity ==
    /\ loadingAccounts \cap DOMAIN zonesCache = {}
    /\ loadingZones \cap DOMAIN recordsCache = {}
    /\ loadingMembers \cap DOMAIN membersCache = {}

\* C2: there are never two outstanding remote fetches of the zones of the
\* same account, of the records of the same (account, zone), or of the
\* members of the same account.
C2_OneFetchPerKey ==
    \A accountId \in AccountIds :
        /\ Cardinality(FetchingZones(accountId)) <= 1
        /\ Cardinality(FetchingMembers(accountId)) <= 1
        /\ \A zoneId \in ZoneIds :
             Cardinality(FetchingRecords(accountId, zoneId)) <= 1

\* C3: when a load finds no credentials for the account, the call returns a
\* single error placeholder and the key has left its loading-guard set.
C3_MissingCredentialsClearGuard ==
    [][\A call \in inflight :
         (getAccountWithTokenSettles(call) /\ last'.via = "tokenNotFound")
            => /\ last'.result = <<ErrorTreeItem(<<"Token not found">>)>>
               /\ ~Loading(call)']_vars

\* C4: getChildren never ends with an exception; whatever the Account Store
\* and the remote API do, it ends with a node list, and a failure ends with
\* exactly one error placeholder.
C4_NeverThrows ==
    /\ last.completion # "threw"
    /\ last.via \in {"catch", "catchAccounts", "tokenNotFound"}
          => /\ last.completion = "returned"
             /\ Len(last.result) = 1
             /\ last.result[1].kind = "error"

\* C4 witness: a failure inside a load was caught and returned as a single
\* error placeholder.
C4_FailureReturned ==
    /\ last.via = "catch"
    /\ last.completion = "returned"
    /\ last.result = <<ErrorTreeItem(<<"fetch failed">>)>>

\* C5: when the zone, record or member fetch of a load fails, the key is
\* afterwards neither in its guard set nor in its cache table (it is Absent).
C5_FetchFailureReverts ==
    [][\A call \in inflight :
         (pageSettles(call) /\ last'.via = "catch")
            => (~Loading(call)' /\ ~Present(call)')]_vars

\* C6: while an entry of zonesCache, recordsCache or membersCache stays
\* present its value is not replaced, and no fetch of its collection is
\* started.
C6_PopulatedEntryKept ==
    [][/\ \A k \in (DOMAIN zonesCache) \cap (DOMAIN zonesCache') :
            zonesCache'[k] = zonesCache[k]
       /\ \A k \in (DOMAIN recordsCache) \cap (DOMAIN recordsCache') :
            recordsCache'[k] = recordsCache[k]
       /\ \A k \in (DOMAIN membersCache) \cap (DOMAIN membersCache') :
            membersCache'[k] = membersCache[k]
       /\ \A call \in inflight' \ inflight :
            /\ call.pc = "getZones" => ~MapHas(zonesCache, call.accountId)
            /\ call.pc = "getDnsRecords" =>
                 ~MapHas(recordsCache, cacheKey(call.accountId, call.zoneId))
            /\ call.pc = "getMembers" => ~MapHas(membersCache, call.accountId)]_vars

\* C7: getChildren on a node whose key is in the loading-guard set and not
\* in the cache returns exactly one loading placeholder at once, and changes
\* neither the cache tables, nor the guard sets, nor the calls in flight.
C7_LoadingObserver ==
    [][/\ \A accountId \in AccountIds :
            (/\ ~MapHas(zonesCache, accountId)
             /\ accountId \in loadingAccounts
             /\ getZoneItems(accountId))
               => /\ last' = Step("returned", "loading", <<LoadingTreeItem>>, 0)
                  /\ UNCHANGED <<caches, guards, inflight>>
       /\ \A accountId \in AccountIds, zoneId \in ZoneIds :
            (/\ ~MapHas(recordsCache, cacheKey(accountId, zoneId))
             /\ cacheKey(accountId, zoneId) \in loadingZones
             /\ getDnsRecordItems(accountId, zoneId))
               => /\ last' = Step("returned", "loading", <<LoadingTreeItem>>, 0)
                  /\ UNCHANGED <<caches, guards, inflight>>
       /\ \A accountId \in AccountIds :
            (/\ ~MapHas(membersCache, accountId)
             /\ accountId \in loadingMembers
             /\ getMemberItems(accountId))
               => /\ last' = Step("returned", "loading", <<LoadingTreeItem>>, 0)
                  /\ UNCHANGED <<caches, guards, inflight>>]_vars

\* C7 witness: a call returned the loading placeholder while two loads were
\* in flight.
C7_LoadingObserved ==
    /\ last = Step("returned", "loading", <<LoadingTreeItem>>, 0)
    /\ Cardinality(inflight) = MaxCalls
    /\ \A call \in inflight : Loading(call) /\ ~Present(call)

\* C8: whenever a load completes (its key goes from Loading to Present or
\* back to Absent), a change notification is emitted afterwards.
C8_LoadCompletionAnnounced ==
    (last.via \in {"loaded", "catch"}) ~> (last.fired > 0)

\* C9: right after refresh(), refreshAccount(id) or refreshZone(id, zone), a
\* getChildren call on a node whose key was invalidated starts a new load.
C9_RefreshThenFreshLoad ==
    [][/\ \A accountId \in AccountIds, zoneId \in ZoneIds :
            (refresh \/ refreshAccount(accountId) \/ refreshZone(accountId, zoneId))
               => StartsLoad(loadingZones, recordsCache, cacheKey(accountId, zoneId))'
       /\ \A accountId \in AccountIds :
            (refresh \/ refreshAccount(accountId))
               => /\ StartsLoad(loadingAccounts, zonesCache, accountId)'
                  /\ StartsLoad(loadingMembers, membersCache, accountId)']_vars

\* C10: refreshAccount(A) and refreshZone(A, z) leave the zones entry, the
\* members entry and every records entry of every other account B unchanged.
C10_CacheKeyIsolation ==
    [][\A A \in AccountIds :
         (refreshAccount(A) \/ \E zoneId \in ZoneIds : refreshZone(A, zoneId))
            => \A B \in AccountIds \ {A} : EntriesOf(B)' = EntriesOf(B)]_vars

\* C12: right after refreshAccount(id), zonesCache and membersCache have no
\* entry for id and recordsCache has no entry for any key id:z; right after
\* refresh(), the three cache tables are empty.
C12_InvalidationComplete ==
    [][/\ \A accountId \in AccountIds :
            refreshAccount(accountId)
               => /\ ~MapHas(zonesCache, accountId)'
                  /\ ~MapHas(membersCache, accountId)'
                  /\ \A zoneId \in ZoneIds :
                       ~MapHas(recordsCache, cacheKey(accountId, zoneId))'
       /\ refresh => /\ DOMAIN zonesCache' = {}
                     /\ DOMAIN recordsCache' = {}
                     /\ DOMAIN membersCache' = {}]_vars

\* C12 witness: the zones of account a were listed once, a refresh operation
\* has just run, and account a has no entry left while the other account
\* still has its zones.
C12_AccountInvalidated ==
    /\ last = Fired(WholeTree)
    /\ Element("zone", <<"a">>, <<"z">>) \in issued
    /\ ~MapHas(zonesCache, <<"a">>)
    /\ ~MapHas(membersCache, <<"a">>)
    /\ ~MapHas(recordsCache, cacheKey(<<"a">>, <<"z">>))
    /\ MapHas(zonesCache, <<"a", "b">>)
    /\ MapHas(membersCache, <<"a", "b">>)

\* C13: in the state refreshAccount(id) leaves, a second refreshAccount(id)
\* changes neither the cache tables nor the guard sets.
C13_RefreshAccountIdempotent ==
    [][\A accountId \in AccountIds :
         refreshAccount(accountId)
            => (ENABLED (refreshAccount(accountId) /\ UNCHANGED <<caches, guards>>))']_vars

\* C13 witness: the records of both accounts were listed once, a refresh
\* operation has just run, and no records key starting with "a" is left
\* while the zones of the other account are still cached.
C13_RefreshedTwiceSame ==
    /\ last = Fired(WholeTree)
    /\ Element("zone", <<"a">>, <<"z">>) \in issued
    /\ Element("zone", <<"a", "b">>, <<"z">>) \in issued
    /\ accountRecordKeys(<<"a">>) = {}
    /\ MapHas(zonesCache, <<"a", "b">>)
    /\ ~MapHas(zonesCache, <<"a">>)

\* C11: the record key accountId:zoneId is injective on (accountId, zoneId)
\* pairs, also for ids built around ":": a getChildren call or a refreshZone
\* on one pair changes neither the zone loading guard nor the records entry
\* of a different pair.
C11_CompositeKeyInjective ==
    [][\A accountId \in KeyAccountIds, zoneId \in KeyZoneIds :
         (getDnsRecordItems(accountId, zoneId) \/ refreshZone(accountId, zoneId))
            => \A otherAccount \in KeyAccountIds, otherZone \in KeyZoneIds :
                 <<otherAccount, otherZone>> # <<accountId, zoneId>>
                    => LET key == cacheKey(otherAccount, otherZone)
                       IN  /\ (key \in loadingZones') = (key \in loadingZones)
                           /\ Entry(recordsCache', key) = Entry(recordsCache, key)]_vars

C15_LoopStopsAtTotal ==
    [][\A call \in inflight :
         \A remote \in servedTo(call) : \A result_info \in ResultInfos(remote) :
            pageAnswered(call, remote, result_info)
               => LET reported == IF result_info # <<>> THEN result_info[1]
                                  ELSE call.totalPages
                      total == IF reported < 1 THEN 1 ELSE reported
                  IN  /\ LoopContinues(call) <=> call.page < total
                      /\ ~LoopContinues(call) => call.page = total]_vars

\* C15 witness: a member fetch of two pages has completed next to the cached
\* zones of the account.
C15_TwoPagesFetched ==
    /\ last.via = "loaded"
    /\ \E accountId \in PagedAccountIds :
         /\ MapHas(zonesCache, accountId)
         /\ MapHas(membersCache, accountId)
         /\ membersCache[accountId] = FirstItems(PagedMembers, 2 * PageSize)
         /\ totalPagesOf(membersCache[accountId]) = 2
         /\ \E zoneMap \in {MapClear, cachedZoneMap(accountId)} :
              last.result = memberItems(membersCache[accountId], accountId, zoneMap)

\* C16: when page k > 1 of the zone fetch of an account node, the record
\* fetch of a zone node or the member fetch of a team-members node fails, no
\* further page is requested, no cache table changes, the key is in neither
\* its guard set nor its cache table, and getChildren returns one error
\* placeholder.
C16_FailingPageAborts ==
    [][\A call \in inflight :
         (/\ call.page > 1
          /\ ~MemberFetchOfAccount(call)
          /\ (pageRejected(call) \/ \E errors \in ApiErrorLists : pageFailed(call, errors)))
            => /\ ~LoopContinues(call)
               /\ UNCHANGED caches
               /\ ~Loading(call)'
               /\ ~Present(call)'
               /\ last'.completion = "returned"
               /\ Len(last'.result) = 1
               /\ last'.result[1].kind = "error"]_vars

\* C17: when a page of the zone fetch of an account node, of the record
\* fetch of a zone node or of the member fetch of a team-members node answers
\* success:false with the messages e1 and e2, getChildren on the node returns
\* exactly one error placeholder carrying "e1, e2".
C17_ApiFailureIsHardError ==
    [][\A call \in inflight :
         (/\ ~MemberFetchOfAccount(call)
          /\ pageFailed(call, <<"e1", "e2">>))
            => last' = Step("returned", "catch",
                            <<ErrorTreeItem(<<"e1", ", ", "e2">>)>>, 0)]_vars

\* C17 witness: a load ended with the error placeholder carrying the joined
\* messages.
C17_JoinedMessageReturned ==
    /\ last = Step("returned", "catch", <<ErrorTreeItem(<<"e1", ", ", "e2">>)>>, 0)
    /\ inflight = {}

\* C18: when the member fetch of an account load fails, getChildren returns
\* the zone nodes followed by a Team Members node with count 0, the zones
\* entry of the account is set and the account has left loadingAccounts.
C18_MemberFailureDegrades ==
    [][\A call \in inflight :
         (/\ MemberFetchOfAccount(call)
          /\ (pageRejected(call) \/ \E errors \in ApiErrorLists : pageFailed(call, errors)))
            => LET accountId == call.accountId
                   Item(zone) == ZoneTreeItem(zone, accountId)
               IN  /\ last'.completion = "returned"
                   /\ last'.result =
                        (IF call.zones = <<>>
                         THEN <<EmptyTreeItem(<<"No domains found">>)>>
                         ELSE SeqMap(Item, call.zones))
                           \o <<TeamMembersTreeItem(accountId, 0)>>
                   /\ Entry(zonesCache', accountId) = <<call.zones>>
                   /\ accountId \notin loadingAccounts']_vars

\* C18 witness: an account load has completed with its two zone nodes and a
\* Team Members node of count 0 while the members of the account are not
\* cached.
C18_DegradedLoadReturned ==
    /\ last.via = "loaded"
    /\ \E accountId \in PagedAccountIds :
         /\ Len(last.result) = 3
         /\ last.result[1].kind = "zone"
         /\ last.result[2].kind = "zone"
         /\ last.result[3] = TeamMembersTreeItem(accountId, 0)
         /\ ~MapHas(membersCache, accountId)
         /\ MapHas(zonesCache, accountId)
         /\ accountId \notin loadingAccounts

\* C19: when the count request of a zone throws or answers success:false,
\* that zone's count stays unknown; when it reports a total, the count is
\* that total; the counts of the other zones are not touched.
C19_CountFailureIsUnknown ==
    [][\A call \in inflight : \A i \in call.pending :
         \A answer \in {"throws", "failure", "total"} :
            countAnswered(call, i, answer)
               => \A next \in inflight' \ inflight :
                    /\ next.zones[i].recordCount =
                         (IF answer = "total" THEN TotalCount ELSE NoCount)
                    /\ \A j \in (1..Len(call.zones)) \ {i} :
                         next.zones[j] = call.zones[j]]_vars

\* C20: a step in which a load fails (missing credentials, a thrown error,
\* success:false, a failed count or member sub-fetch) changes no cache entry
\* except, when the load goes on to complete, the zones and members entries
\* of its own account.
C20_FailureIsolatedPerKey ==
    [][\A call \in inflight :
         /\ (getAccountWithTokenSettles(call) /\ last'.via \in {"tokenNotFound", "catch"})
               => UNCHANGED caches
         /\ (pageRejected(call) \/ \E errors \in ApiErrorLists : pageFailed(call, errors))
               => IF MemberFetchOfAccount(call)
                  THEN /\ OthersKept(zonesCache, zonesCache', call.accountId)
                       /\ UNCHANGED <<recordsCache, membersCache>>
                  ELSE UNCHANGED caches
         /\ \A i \in call.pending :
              (countAnswered(call, i, "throws") \/ countAnswered(call, i, "failure"))
                 => UNCHANGED caches
         /\ (/\ MemberFetchOfAccount(call)
             /\ \E i \in 1..Len(call.zones) : call.zones[i].recordCount = NoCount
             /\ pageSettles(call))
               => /\ OthersKept(zonesCache, zonesCache', call.accountId)
                  /\ OthersKept(membersCache, membersCache', call.accountId)
                  /\ UNCHANGED recordsCache]_vars

\* C20 witness: a load has just ended in its catch clause while the zones of
\* the account and the records of a zone are cached.
C20_FailureBesideCachedKeys ==
    /\ last.via = "catch"
    /\ last.completion = "returned"
    /\ \E accountId \in PagedAccountIds, zoneId \in PagedZoneIds :
         /\ MapHas(zonesCache, accountId)
         /\ MapHas(recordsCache, cacheKey(accountId, zoneId))
         /\ Len(recordsCache[cacheKey(accountId, zoneId)]) > 0

\* C21: getChildren on an account node whose zones entry is present returns
\* one zone node per cached zone in cached order, followed by exactly one
\* Team Members node whose count is the length of the account's members
\* entry (0 when it is absent), and starts no remote fetch: it changes
\* neither the calls in flight, nor the guard sets, nor the cache tables.
C21_AccountServedFromCache ==
    [][\A accountId \in PagedAccountIds :
         (MapHas(zonesCache, accountId) /\ getZoneItems(accountId))
            => LET zones == zonesCache[accountId]
                   result == last'.result
               IN  /\ last'.completion = "returned"
                   /\ Len(result) = Len(zones) + 1
                   /\ \A i \in 1..Len(zones) :
                        result[i] = ZoneTreeItem(zones[i], accountId)
                   /\ result[Len(zones) + 1] =
                        TeamMembersTreeItem(accountId,
                            IF MapHas(membersCache, accountId)
                            THEN Len(membersCache[accountId]) ELSE 0)
                   /\ UNCHANGED <<inflight, guards, caches>>]_vars

\* C21 witness: an account node was served from the cache with its two zone
\* nodes and a Team Members node counting the two pages of cached members.
C21_ServedWithMemberCount ==
    /\ last.via = "cache"
    /\ \E accountId \in PagedAccountIds :
         /\ MapHas(zonesCache, accountId)
         /\ MapHas(membersCache, accountId)
         /\ Len(membersCache[accountId]) = 2 * PageSize
         /\ Len(last.result) = Len(zonesCache[accountId]) + 1
         /\ last.result[1].kind = "zone"
         /\ last.result[Len(last.result)] =
              TeamMembersTreeItem(accountId, 2 * PageSize)

\* C22: when the record fetch of a zone node or the member fetch of a
\* team-members node succeeds with zero items, getChildren returns exactly
\* one empty placeholder and the key is Present with an empty list; a call
\* on such a node returns an error placeholder only when its load failed,
\* and then the key is not Present.
C22_EmptyIsNotFailure ==
    [][\A call \in inflight :
         call.kind \in {"zone", "teamMembers"} =>
            /\ \A result_info \in ResultInfos(<<>>) :
                 (<<>> \in servedTo(call) /\ pageAnswered(call, <<>>, result_info))
                    => /\ last'.completion = "returned"
                       /\ Len(last'.result) = 1
                       /\ last'.result[1].kind = "empty"
                       /\ Present(call)'
                       /\ call.kind = "zone" =>
                            recordsCache'[cacheKey(call.accountId, call.zoneId)] = <<>>
                       /\ call.kind = "teamMembers" =>
                            membersCache'[call.accountId] = <<>>
            /\ (/\ getAccountWithTokenSettles(call) \/ pageSettles(call)
                /\ call \notin inflight'
                /\ \E i \in 1..Len(last'.result) : last'.result[i].kind = "error")
                    => /\ last'.via \in {"catch", "tokenNotFound"}
                       /\ Len(last'.result) = 1
                       /\ ~Present(call)']_vars

\* C23: filterAndSortRecords returns exactly the records whose type is in
\* the allow-list, each as often as the list holds it, ordered by type and
\* within equal type by name; TXT/b, A/a, A/c with the allow-list {A, TXT}
\* gives A/a, A/c, TXT/b.  (Ordered lists of the same records are equal, so
\* the output is a function of the record list and the allow-list.)
C23_FilterSortResult ==
    [][\A visibleTypes \in SortTypeConfigs :
         cachedDnsRecordItems(<<"a">>, <<"z">>, visibleTypes)
            => LET records == recordsCache[cacheKey(<<"a">>, <<"z">>)]
                   result == last'.result
               IN  /\ \A i \in 1..Len(result) : result[i].kind = "dnsRecord"
                   /\ \A r \in SortRecords :
                        Occurrences(result, DnsRecordTreeItem(r)) =
                           IF \E k \in 1..Len(visibleTypes) : visibleTypes[k] = r.type
                           THEN Occurrences(records, r) ELSE 0
                   /\ \A i \in 1..Len(result) :
                        \E r \in SortRecords : result[i] = DnsRecordTreeItem(r)
                   /\ \A i, j \in 1..Len(result) :
                        i < j =>
                          \/ localeCompare(result[i].record.type, result[j].record.type) < 0
                          \/ /\ result[i].record.type = result[j].record.type
                             /\ localeCompare(result[i].record.name, result[j].record.name) <= 0
                   /\ (/\ records = <<DnsRecord("TXT", "b"), DnsRecord("A", "a"),
                                       DnsRecord("A", "c")>>
                       /\ visibleTypes = <<"A", "TXT">>)
                         => result = <<DnsRecordTreeItem(DnsRecord("A", "a")),
                                       DnsRecordTreeItem(DnsRecord("A", "c")),
                                       DnsRecordTreeItem(DnsRecord("TXT", "b"))>>]_vars

\* C23 witness: the cached list TXT/b, A/a, A/c was returned as A/a, A/c,
\* TXT/b.
C23_ExampleSorted ==
    /\ last.via = "cache"
    /\ recordsCache[cacheKey(<<"a">>, <<"z">>)] =
          <<DnsRecord("TXT", "b"), DnsRecord("A", "a"), DnsRecord("A", "c")>>
    /\ last.result = <<DnsRecordTreeItem(DnsRecord("A", "a")),
                       DnsRecordTreeItem(DnsRecord("A", "c")),
                       DnsRecordTreeItem(DnsRecord("TXT", "b"))>>

\* C24: applying the filter/sort to its own output with the same allow-list
\* returns the same ordered list, and applying it to a cached record list
\* leaves the cached list, its elements and their order, as it was (and
\* every other cache entry too).
C24_FilterSortIdempotent ==
    [][\A visibleTypes \in SortTypeConfigs :
         cachedDnsRecordItems(<<"a">>, <<"z">>, visibleTypes)
            => /\ filterAndSortRecords(SeqMap(RecordOf, last'.result), visibleTypes)
                    = last'.result
               /\ recordsCache' = recordsCache
               /\ UNCHANGED <<zonesCache, membersCache>>]_vars

\* C24 witness: the cached list MX/a, A/c, A/a was returned as A/a, A/c, MX/a
\* and is still cached in the server's order.
C24_SortedCopyReturned ==
    /\ last.via = "cache"
    /\ recordsCache[cacheKey(<<"a">>, <<"z">>)] =
          <<DnsRecord("MX", "a"), DnsRecord("A", "c"), DnsRecord("A", "a")>>
    /\ last.result = <<DnsRecordTreeItem(DnsRecord("A", "a")),
                       DnsRecordTreeItem(DnsRecord("A", "c")),
                       DnsRecordTreeItem(DnsRecord("MX", "a"))>>

\* C25: getChildren() on the root returns one account node per account of
\* the Account Store in store order, exactly one empty placeholder when the
\* store holds no account, and exactly one error placeholder when reading
\* the store fails; it changes no cache table and no guard set.
C25_RootNode ==
    [][/\ \A accounts \in StoredAccountLists :
            accountsRead(accounts)
               => /\ last'.completion = "returned"
                  /\ IF Len(accounts) = 0
                     THEN /\ Len(last'.result) = 1
                          /\ last'.result[1].kind = "empty"
                     ELSE /\ Len(last'.result) = Len(accounts)
                          /\ \A i \in 1..Len(accounts) :
                               last'.result[i] = AccountTreeItem(accounts[i])
                  /\ UNCHANGED <<caches, guards>>
       /\ \A error \in StoreRejections :
            accountsRejected(error)
               => /\ last'.completion = "returned"
                  /\ Len(last'.result) = 1
                  /\ last'.result[1].kind = "error"
                  /\ UNCHANGED <<caches, guards>>
       /\ getAccountItems
            => /\ UNCHANGED <<caches, guards>>
               /\ last'.completion = "pending"
                    \/ /\ last'.completion = "returned"
                       /\ Len(last'.result) = 1
                       /\ last'.result[1].kind = "error"]_vars

\* C25 witness: the root was listed with the two stored accounts, in store
\* order, while the zones of an account are cached and a load is in flight.
C25_AccountsListed ==
    /\ last = Step("returned", "accounts",
                   <<AccountTreeItem(<<"a">>), AccountTreeItem(<<"a", "b">>)>>, 0)
    /\ DOMAIN zonesCache # {}
    /\ loadingAccounts # {}

\* C29: getAccounts never throws and yields an empty list while the store
\* is uninitialized, so that getChildren() on the root then returns the
\* empty placeholder and not the error placeholder.
C29_UninitializedStoreReadsEmpty ==
    [][/\ (~instance /\ getAccountItems)
            => /\ last'.completion = "returned"
               /\ Len(last'.result) = 1
               /\ last'.result[1].kind = "empty"
       /\ \A error \in StoreRejections : ~accountsRejected(error)]_vars

\* C28: refresh, refreshAccount and refreshZone leave the guard sets as they
\* are; as long as the remote request of a load stays unanswered, the key of
\* the load stays in its guard set and every getChildren call on the node
\* returns the loading placeholder, whatever refresh operation runs in
\* between.
C28_HungLoadWedgesKey ==
    [][/\ (\/ refresh
           \/ \E accountId \in AccountIds : refreshAccount(accountId)
           \/ \E accountId \in AccountIds, zoneId \in ZoneIds :
                refreshZone(accountId, zoneId))
            => UNCHANGED guards
       /\ \A call \in inflight :
            (call.pc \in RemoteAwaits /\ call \in inflight')
               => /\ Loading(call)'
                  /\ RequestedAgain(call)
                       => last' = Step("returned", "loading", <<LoadingTreeItem>>, 0)]_vars

\* C30: in an account load with the record-count toggle on, the count
\* requests of all zones are outstanding together; a settling count request
\* changes no cache table and no guard set, and the load goes on to its
\* member fetch exactly when the last of them settles; the zones entry is
\* stored by a load with no count request outstanding, and in no state is
\* the zones entry of an account present while a count request of a load of
\* that account is outstanding.
C30_CountsSettleBeforeStore ==
    [][/\ \A call \in inflight :
            /\ call.pc = "getZones" =>
                 \A next \in Resumed :
                    next.pc = "getDnsRecordCount" =>
                       /\ next.pending = 1..Len(next.zones)
                       /\ Len(next.zones) > 0
            /\ \A i \in call.pending : \A answer \in CountAnswers(call.accountId) :
                 countAnswered(call, i, answer)
                    => /\ UNCHANGED <<caches, guards>>
                       /\ (\E next \in Resumed : next.pc = "getMembers")
                             <=> call.pending = {i}
                       /\ \A next \in Resumed :
                            next.pc = "getDnsRecordCount" =>
                               next.pending = call.pending \ {i}
       /\ \A accountId \in PagedAccountIds :
            (MapHas(zonesCache', accountId)
               /\ Entry(zonesCache', accountId) # Entry(zonesCache, accountId))
               => \E call \in inflight \ inflight' :
                    /\ call.kind = "account"
                    /\ call.accountId = accountId
                    /\ call.pc = "getMembers"
                    /\ call.pending = {}
                    /\ zonesCache'[accountId] = call.zones
       /\ \A call \in inflight' :
            call.pc = "getDnsRecordCount" =>
               /\ ~MapHas(zonesCache', call.accountId)
               /\ call.accountId \in loadingAccounts']_vars

\* C30 witness: an account load has stored its two zones after both count
\* requests settled, one with a total and one with a failure.
C30_CountedZonesStored ==
    /\ last.via = "loaded"
    /\ \E accountId \in PagedAccountIds :
         /\ MapHas(zonesCache, accountId)
         /\ Len(zonesCache[accountId]) = 2
         /\ zonesCache[accountId][1].recordCount = TotalCount
         /\ zonesCache[accountId][2].recordCount = 0
         /\ accountId \notin loadingAccounts
         /\ \A call \in inflight : call.pc # "getDnsRecordCount"

\* C26: when the request of a create, update, delete or proxy-toggle command
\* has succeeded, the records entry of that (account, zone) is absent and
\* one change notification was emitted, every other entry being as before;
\* when the request failed or the command was cancelled or found no token,
\* no cache entry changed and nothing was emitted; no step of a DNS command
\* changes the value of a records entry that stays in the cache.
C26_DnsMutationInvalidates ==
    [][/\ \A call \in inflight :
            call.kind \in DnsCommands =>
               /\ dnsRequestSucceeded(call)
                    => /\ ~MapHas(recordsCache', cacheKey(call.accountId, call.zoneId))
                       /\ last'.fired = 1
                       /\ OthersKept(recordsCache, recordsCache',
                                     cacheKey(call.accountId, call.zoneId))
                       /\ UNCHANGED <<zonesCache, membersCache>>
                       /\ Ended(call)
               /\ (dnsRequestFailed(call) \/ commandTokenSettles(call))
                    => /\ UNCHANGED caches
                       /\ last'.fired = 0
               /\ (dnsRequestSucceeded(call) \/ dnsRequestFailed(call)
                      \/ commandTokenSettles(call))
                    => \A key \in (DOMAIN recordsCache) \cap (DOMAIN recordsCache') :
                         recordsCache'[key] = recordsCache[key]
       /\ \A command \in DnsCommands, accountId \in CommandAccountIds,
             zoneId \in CommandZoneIds :
            (dnsCommand(command, accountId, zoneId) \/ commandCancelled)
               => /\ UNCHANGED caches
                  /\ last'.fired = 0]_vars

\* C26 witness: a DNS command has just succeeded while the records of its
\* zone were cached: the records entry is gone, one event was fired, and
\* the zones and members entries of the account are still there.
C26_RecordsInvalidated ==
    /\ last = Fired(WholeTree)
    /\ ~MapHas(recordsCache, cacheKey(<<"a">>, <<"z">>))
    /\ MapHas(zonesCache, <<"a">>)
    /\ MapHas(membersCache, <<"a">>)
    /\ \A call \in inflight : call.kind \notin DnsCommands

\* C27: when a member command (invite, edit permissions, resend invitation,
\* remove) ends after it changed the membership of the account at the
\* provider, a resend whose removal succeeded and whose re-invite failed
\* included, the members entry of the account is absent.
C27_MembershipMutationInvalidates ==
    [][\A call \in inflight :
         (/\ call.kind \in MemberCommands
          /\ memberRequestSucceeded(call) \/ memberRequestFailed(call)
          /\ Ended(call)
          /\ MembershipChanged(call))
            => ~MapHas(membersCache', call.accountId)]_vars

\* C31: refresh, refreshAccount and refreshZone each run in one synchronous
\* step that suspends nothing and starts no remote fetch, leave the three
\* guard sets unchanged, remove cache entries only (none is added or
\* replaced), and emit exactly one change notification.
C31_RefreshOnlyInvalidates ==
    [][(\/ refresh
        \/ \E accountId \in CommandAccountIds : refreshAccount(accountId)
        \/ \E accountId \in CommandAccountIds, zoneId \in CommandZoneIds :
             refreshZone(accountId, zoneId))
          => /\ last'.completion = "none"
             /\ UNCHANGED inflight
             /\ UNCHANGED guards
             /\ RemovedOnly(zonesCache, zonesCache')
             /\ RemovedOnly(recordsCache, recordsCache')
             /\ RemovedOnly(membersCache, membersCache')
             /\ last'.fired = 1]_vars

\* C31 witness: a refresh operation has just run while loads were in flight:
\* their keys are still guarded, their calls still suspended, and no cache
\* entry of their keys exists.
C31_RefreshedDuringLoads ==
    /\ last.completion = "none"
    /\ last.fired = 1
    /\ Cardinality(inflight) >= 2
    /\ loadingZones # {}
    /\ loadingMembers # {}
    /\ DOMAIN recordsCache = {}
    /\ DOMAIN membersCache = {}

\* C32: refresh() emits a change notification for the whole tree,
\* refreshAccount(id) one that designates the node of that account, and
\* refreshZone(accountId, zoneId) one that designates the node of that zone.
C32_NotificationsScoped ==
    [][/\ refresh => last'.changed = <<WholeTree>>
       /\ \A accountId \in CommandAccountIds :
            refreshAccount(accountId)
               => last'.changed = <<Element("account", accountId, NoId)>>
       /\ \A accountId \in CommandAccountIds, zoneId \in CommandZoneIds :
            refreshZone(accountId, zoneId)
               => last'.changed = <<Element("zone", accountId, zoneId)>>]_vars

\* C33: a getChildren call on a zone whose records entry is present,
\* whatever the allow-list of the calls before it was, returns the cached
\* records whose type is in the allow-list of this call and no other, and
\* starts no remote fetch and needs no refresh: the calls in flight, the
\* guard sets and the cache tables are unchanged and nothing is emitted.
C33_AllowListReadEachCall ==
    [][\A visibleTypes \in SortTypeConfigs :
         cachedDnsRecordItems(<<"a">>, <<"z">>, visibleTypes)
            => LET records == recordsCache[cacheKey(<<"a">>, <<"z">>)]
                   allowed == {i \in 1..Len(records) :
                                 \E k \in 1..Len(visibleTypes) :
                                    visibleTypes[k] = records[i].type}
                   result == last'.result
               IN  /\ last'.completion = "returned"
                   /\ Len(result) = Cardinality(allowed)
                   /\ {RecordOf(result[i]) : i \in 1..Len(result)}
                         = {records[i] : i \in allowed}
                   /\ UNCHANGED <<inflight, guards, caches>>
                   /\ last'.fired = 0]_vars

\* C33 witness: the cached list TXT/b, MX/a, A/a was returned as A/a, TXT/b:
\* the allow-list of the call was not the default one, which shows MX.
C33_NarrowedListServed ==
    /\ last.via = "cache"
    /\ recordsCache[cacheKey(<<"a">>, <<"z">>)] =
          <<DnsRecord("TXT", "b"), DnsRecord("MX", "a"), DnsRecord("A", "a")>>
    /\ last.result = <<DnsRecordTreeItem(DnsRecord("A", "a")),
                       DnsRecordTreeItem(DnsRecord("TXT", "b"))>>
    /\ inflight = {}

\* C34 as stated: getChildren on a team-members node builds the zone lookup
\* from the zones entry as it is at the start of the call, requests no
\* zones, never fails over a zone id missing from the lookup, and shows for
\* every zone id of a member's scope the cached zone name, or the raw id when
\* the lookup has none.
C34_EveryScopeZoneShown ==
    [][CrossReferenceLookup(TRUE)]_vars

\* C34, amended: the same, with the names shown for the first maxToShow zone
\* ids of a member's scope only (the others are summed up in one line that
\* counts them).
C34_CrossReferenceDegrades ==
    [][CrossReferenceLookup(FALSE)]_vars

\* C34 witness: a team-members load that started while the zones entry was
\* absent has ended after the zones were cached: the node of m1 shows the raw
\* id of zone z, which the cache now names, and four more raw ids, and counts
\* one more zone.
C34_RawIdsShown ==
    /\ last.via = "loaded"
    /\ MapHas(zonesCache, <<"a">>)
    /\ Len(zonesCache[<<"a">>]) = 1
    /\ zonesCache[<<"a">>][1].id = <<"z">>
    /\ cachedZoneMap(<<"a">>)[<<"z">>] = nameOfZone(<<"z">>)
    /\ Len(last.result) = 1
    /\ last.result[1].kind = "member"
    /\ last.result[1].member = "m1"
    /\ last.result[1].scope =
          << <<"z">>, <<"y">>, <<"z", "1">>, <<"z", "2">>, <<"x">> >>
    /\ last.result[1].more = 1

\* C35: data that a load fetched before an invalidation of its key is never
\* stored after it: right after a DNS record command succeeded and called
\* refreshZone, no load of that zone that holds records fetched before can
\* store them, and right after a member command called refresh(), no load
\* at all that holds items fetched before can store them.
C35_NoStaleWrite ==
    [][\A call \in inflight :
         /\ dnsRequestSucceeded(call)
               => (\A load \in inflight :
                     (/\ load.kind = "zone"
                      /\ load.accountId = call.accountId
                      /\ load.zoneId = call.zoneId
                      /\ HoldsFetched(load))
                        => ~ENABLED StoresFetched(load))'
         /\ (/\ memberRequestSucceeded(call) \/ memberRequestFailed(call)
             /\ last'.fired = 1)
               => (\A load \in inflight :
                     (load.kind \in {"zone", "teamMembers"} /\ HoldsFetched(load))
                        => ~ENABLED StoresFetched(load))']_vars

\* C36: when a load of an account, zone or team-members node has completed
\* and populated its entry, a getChildren call on the node, served from that
\* entry with no invalidation in between and under the same configuration,
\* returns a node list with the same kinds of nodes, in the same number, as
\* the load returned, also for an empty zone list or record list.
C36_CachedAndFreshAgree ==
    [][\A load \in inflight :
         (/\ load.kind \in {"account", "zone", "teamMembers"}
          /\ pageSettles(load)
          /\ last'.via = "loaded")
            => (ENABLED AnswersAlike(load))']_vars

\* C37: when every Account Store call and every remote call eventually
\* answers, every key that is in loadingAccounts, loadingZones or
\* loadingMembers eventually is not, so that no node returns the loading
\* placeholder forever.
C37_GuardsReleased ==
    /\ \A accountId \in AccountIds :
         /\ (accountId \in loadingAccounts) ~> (accountId \notin loadingAccounts)
         /\ (accountId \in loadingMembers) ~> (accountId \notin loadingMembers)
    /\ \A accountId \in AccountIds, zoneId \in ZoneIds :
         (cacheKey(accountId, zoneId) \in loadingZones)
            ~> (cacheKey(accountId, zoneId) \notin loadingZones)

\* C38: whatever the outcomes of the removal and of the re-invite of a
\* resend are, a re-invite that fails and a member without direct roles
\* included, the account has a pending invitation for the member's e-mail
\* address when the operation ends.
C38_ResendKeepsInvitation ==
    [][\A call \in inflight :
         (/\ call.kind = "resendInvitation"
          /\ memberRequestSucceeded(call) \/ memberRequestFailed(call)
          /\ Ended(call))
            => InvitationKept(call)]_vars

====
